---- MODULE Spec2Model ----
(***************************************************************************)
(* py3dmol: the Local Capture Service (image_server.py), the viewer        *)
(* session's command queue (backend_3dmol.py) and the capture orchestrator *)
(* (backend_3dmol.py, headless_capture.py) as one state machine.           *)
(***************************************************************************)
EXTENDS Integers, Sequences, FiniteSets, TLC

\* ------------------------------------------------------------------ bounds
MaxParts == 2
MaxCommands == 3
MaxShows == 2
MaxCalls == 2
MaxStarts == 3

\* Request identifiers are opaque strings.
RequestIds == {"abc123", "f00dcafe"}
NoId == ""

\* Clock readings time.time() can return, and the max_age values a sweep is
\* called with (300 is the default of cleanup_old_requests).
TimePoints == {0, 291, 301}
DefaultMaxAge == 300
MaxAges == {10, DefaultMaxAge}

\* ---------------------------------------------------------------- payloads
\* A raster as PIL sees it: its pixel dimensions and its content.
Images ==
    { [w |-> 1, h |-> 2, px |-> 1],
      [w |-> 2, h |-> 2, px |-> 2] }

\* image_data is a string; it is modelled by its comma-separated parts. A part
\* is the base64 text of a raster or a data-URI header; the header is also the
\* text that is no raster when it stands where the raster is expected.
\* mime is the image type the header names and the raster is encoded in; the
\* parts a client submits directly are PNG.
ImgPart(img) ==
    [kind |-> "img", w |-> img.w, h |-> img.h, px |-> img.px, mime |-> "png"]
PrefixPart == [kind |-> "prefix", w |-> 0, h |-> 0, px |-> 0, mime |-> "png"]
Parts == {ImgPart(i) : i \in Images} \cup {PrefixPart}

SeqsUpTo(S, n) == UNION {[1..k -> S] : k \in 1..n}
Payloads == SeqsUpTo(Parts, MaxParts)

Formats == {"png", "jpeg"}
Representations == {"pil", "numpy", "raw"}
\* The representations a fetch can be answered in.
FetchFormats == {"pil", "numpy"}
\* The width and height fields of a submission.
DeclaredSizes == {<<2, 2>>}

\* A decoder's input that is the text up to the first comma.
base64_data_first(image_data) == image_data[1]

\* image_server.py:64-67: the text after the first comma when there is a
\* comma, else the whole text.
base64_data(image_data) ==
    IF Len(image_data) >= 2 THEN image_data[2] ELSE image_data[1]

\* A decoder that accepts every text.
Decodes_any(image_data) == TRUE

\* image_server.py:72-76: b64decode followed by Image.open raises unless the
\* text is the base64 text of a raster.
Decodes(image_data) == base64_data(image_data).kind = "img"

pil_image(image_data) ==
    LET p == base64_data(image_data)
    IN  [w |-> p.w, h |-> p.h, px |-> p.px]

\* np.array(pil_image): rows first.
numpy_array(img) == [shape |-> <<img.h, img.w>>, data |-> img.px]

\* ------------------------------------------------------------------- state
VARIABLES
    pending_requests,   \* ImageServer.pending_requests: request_id -> entry
    now,                \* the reading of time.time()
    posted,             \* request ids ever sent to POST /convert_image
    last,               \* the last request the service handled
    reply,              \* the HTTP reply to it
    HAS_IPYTHON,        \* backend_3dmol.HAS_IPYTHON (= HAS_IPYTHON_KERNEL)
    commands,           \* JS3DMol.commands
    shown,              \* how many times show() displayed the viewer markup
    flushes,            \* the command scripts show() sent to the live display
    viewer_ready,       \* the display created the viewer and set its ready flag
    ipy,                \* what get_ipython() gives
    server_up,          \* the capture service answers on localhost:8769
    driver_installable, \* a headless Chrome or Firefox driver can be started
    _headless_capture,  \* headless_capture._headless_capture
    capture_js,         \* request ids whose capture script runs in the display
    call,               \* the get_image_data call in progress
    engines,            \* browser engines this process has started
    temp_files,         \* temporary page files on disk
    submit,             \* the convert_image call that built its entry
    fetch,              \* the get_stored_image call of the caller's thread
    sweep,              \* the cleanup_old_requests call of the caller's thread
    srv,                \* image_server's globals and what start_server did
    display,            \* the viewer initialization of the startjs script
    loader              \* the script loads of the startjs script

svcVars == <<pending_requests, now, posted, reply>>
sesVars == <<HAS_IPYTHON, commands, shown, flushes, viewer_ready>>
envVars == <<ipy, server_up, driver_installable>>
hostVars == <<engines, temp_files>>
thrVars == <<submit, fetch, sweep, srv>>
jsVars == <<display, loader>>
capVars == <<ipy, server_up, driver_installable, _headless_capture,
             capture_js, call, engines, temp_files>>
vars == <<pending_requests, now, posted, last, reply,
          HAS_IPYTHON, commands, shown, flushes, viewer_ready,
          ipy, server_up, driver_installable, _headless_capture,
          capture_js, call, engines, temp_files, submit, fetch, sweep, srv, display,
          loader>>

NoBody == [status |-> 0, format |-> "", size |-> <<>>, image_data |-> <<>>,
           ids |-> {}]

\* The last step taken: the endpoint or method, its arguments, and what it did
\* to the store.
NoPayload == <<>>
Request(op, rid, image_data, format, max_age, note) ==
    [op |-> op, rid |-> rid, image_data |-> image_data, format |-> format,
     max_age |-> max_age, note |-> note]

\* ImageServer.__init__: an empty store.
\* A cleanup_old_requests call: where it stands, its current_time and
\* max_age, the size of the dict when the iteration of line 172 began, the
\* keys the iteration has passed and those it put into expired_keys.
NoSweep ==
    [pc |-> "idle", current_time |-> 0, max_age |-> 0, size |-> 0,
     seen |-> {}, expired_keys |-> {}, raised |-> ""]

\* image_server.py:17-19: _server_instance and _server_thread, with the
\* number of start_server calls, of ImageServer objects and threads they
\* created, and what the last call returned.
NoServer ==
    [_server_instance |-> "None", _server_thread |-> "None", calls |-> 0,
     instances |-> 0, threads |-> 0, returned |-> "nothing"]

InitService ==
    /\ pending_requests = <<>>
    /\ now = 0
    /\ posted = {}
    /\ last = Request("init", NoId, NoPayload, "", 0, "")
    /\ reply = NoBody
    /\ submit = <<>>
    /\ fetch = <<>>
    /\ sweep = NoSweep
    /\ srv = NoServer

Stored == DOMAIN pending_requests

\* A store whose assignment keeps an entry that is already there.
Put_keep_first(d, k, v) ==
    [x \in (DOMAIN d) \cup {k} |-> IF x \in DOMAIN d THEN d[x] ELSE v]

\* An assignment that also fills every key the store does not hold.
Put_everywhere(d, k, v) ==
    [x \in RequestIds |-> IF x = k \/ x \notin DOMAIN d THEN v ELSE d[x]]

\* A deletion that empties the store.
Del_all(d, ks) == [x \in {} |-> d[x]]

\* An assignment that writes the array of an entry and keeps the other
\* fields of the entry already stored under the key.
Put_array_only(d, k, v) ==
    [x \in DOMAIN d \cup {k} |->
        IF x = k /\ k \in DOMAIN d
        THEN [d[k] EXCEPT !.numpy_array = v.numpy_array]
        ELSE IF x = k THEN v ELSE d[x]]

\* dict assignment d[k] = v and del d[k].
Put(d, k, v) == [x \in (DOMAIN d) \cup {k} |-> IF x = k THEN v ELSE d[x]]
Del(d, ks) == [x \in (DOMAIN d) \ ks |-> d[x]]

\* -------------------------------------------------------------- operations
\* An entry whose raster is scaled to the declared width and height.
Entry_declared_size(image_data, fmt, width, height, t) ==
    [pil_image |-> [pil_image(image_data) EXCEPT !.w = width, !.h = height],
     numpy_array |-> numpy_array(pil_image(image_data)),
     timestamp |-> t,
     format |-> fmt,
     width |-> width,
     height |-> height]

\* The entry convert_image stores (image_server.py:80-87).
Entry(image_data, fmt, width, height, t) ==
    [pil_image |-> pil_image(image_data),
     numpy_array |-> numpy_array(pil_image(image_data)),
     timestamp |-> t,
     format |-> fmt,
     width |-> width,
     height |-> height]

\* POST /convert_image: what the handler does to the service.
convert_image_handler(rid, image_data, fmt, width, height) ==
    /\ posted' = posted \cup {rid}
    /\ last' = Request("convert_image", rid, image_data, fmt, 0,
          IF ~Decodes(image_data) THEN "rejected"
          ELSE IF rid \notin Stored THEN "stored"
          ELSE IF pending_requests[rid].pil_image = pil_image(image_data)
          THEN "resubmitted" ELSE "replaced")
    /\ IF Decodes(image_data)
       THEN /\ pending_requests' =
                 Put(pending_requests, rid,
                     Entry(image_data, fmt, width, height, now))
            /\ reply' = [NoBody EXCEPT
                 !.status = 200,
                 !.size = <<pil_image(image_data).w, pil_image(image_data).h>>]
       ELSE /\ pending_requests' = pending_requests
            /\ reply' = [NoBody EXCEPT !.status = 400]
    /\ UNCHANGED now

\* POST /convert_image
convert_image(rid, image_data, fmt, width, height) ==
    /\ convert_image_handler(rid, image_data, fmt, width, height)
    /\ UNCHANGED <<sesVars, jsVars, thrVars, capVars>>

\* A lookup that answers an unknown identifier with a success status.
get_image_reply_missing_ok(store, rid, format) ==
    IF rid \notin DOMAIN store
    THEN [NoBody EXCEPT !.status = 200, !.format = "not_found"]
    ELSE [NoBody EXCEPT !.status = 200, !.format = format,
            !.size = <<store[rid].pil_image.w, store[rid].pil_image.h>>]

\* A fetch that labels and encodes the frame as the submission declared.
get_image_reply_declared(store, rid, format) ==
    IF rid \notin DOMAIN store
    THEN [NoBody EXCEPT !.status = 404]
    ELSE [NoBody EXCEPT
            !.status = 200,
            !.format = format,
            !.image_data =
               <<[PrefixPart EXCEPT !.mime = store[rid].format],
                 [ImgPart(store[rid].pil_image) EXCEPT
                    !.mime = store[rid].format]>>,
            !.size = <<store[rid].pil_image.w, store[rid].pil_image.h>>]

\* The reply of GET /get_image/{request_id}?format=... on a store.
get_image_reply(store, rid, format) ==
    IF rid \notin DOMAIN store
    THEN [NoBody EXCEPT !.status = 404]
    ELSE IF format = "pil"
    THEN [NoBody EXCEPT
            !.status = 200,
            !.format = "pil",
            !.image_data = <<PrefixPart, ImgPart(store[rid].pil_image)>>,
            !.size = <<store[rid].pil_image.w, store[rid].pil_image.h>>]
    ELSE IF format = "numpy"
    THEN [NoBody EXCEPT
            !.status = 200,
            !.format = "numpy",
            !.image_data = <<store[rid].numpy_array.data>>,
            !.size = store[rid].numpy_array.shape]
    ELSE [NoBody EXCEPT !.status = 400]

\* GET /get_image/{request_id}
get_image(rid, format) ==
    /\ last' = Request("get_image", rid, NoPayload, format, 0, "")
    /\ reply' = get_image_reply(pending_requests, rid, format)
    /\ UNCHANGED <<pending_requests, now, posted, sesVars, jsVars, thrVars, capVars>>

\* A listing of every identifier a frame was ever posted under.
health_lists_posted ==
    /\ last' = Request("health", NoId, NoPayload, "", 0, "")
    /\ reply' = [NoBody EXCEPT !.status = 200, !.ids = posted]
    /\ UNCHANGED <<pending_requests, now, posted, sesVars, jsVars, thrVars, capVars>>

\* GET /health
health ==
    /\ last' = Request("health", NoId, NoPayload, "", 0, "")
    /\ reply' = [NoBody EXCEPT !.status = 200, !.ids = Stored]
    /\ UNCHANGED <<pending_requests, now, posted, sesVars, jsVars, thrVars, capVars>>

\* DELETE /cleanup/{request_id}
cleanup_request(rid) ==
    /\ last' = Request("cleanup_request", rid, NoPayload, "", 0,
          IF rid \in Stored THEN "removed" ELSE "kept")
    /\ IF rid \in Stored
       THEN /\ pending_requests' = Del(pending_requests, {rid})
            /\ reply' = [NoBody EXCEPT !.status = 200, !.format = "cleaned"]
       ELSE /\ pending_requests' = pending_requests
            /\ reply' = [NoBody EXCEPT !.status = 200, !.format = "not_found"]
    /\ UNCHANGED <<now, posted, sesVars, jsVars, thrVars, capVars>>

\* The age taken with the wrong sign: nothing ever expires.
expired_keys_sign(store, current_time, max_age) ==
    {key \in DOMAIN store : store[key].timestamp - current_time > max_age}

\* An entry aged exactly max_age expires too.
expired_keys_ge(store, current_time, max_age) ==
    {key \in DOMAIN store : current_time - store[key].timestamp >= max_age}

\* image_server.py:171-174
expired_keys(store, current_time, max_age) ==
    {key \in DOMAIN store : current_time - store[key].timestamp > max_age}

\* ImageServer.cleanup_old_requests(max_age), called on the owner's thread.
cleanup_old_requests(max_age) ==
    /\ last' = Request("cleanup_old_requests", NoId, NoPayload, "", max_age,
          IF expired_keys(pending_requests, now, max_age) = {}
          THEN "kept" ELSE "removed")
    /\ pending_requests' =
          Del(pending_requests, expired_keys(pending_requests, now, max_age))
    /\ reply' = NoBody
    /\ UNCHANGED <<now, posted, sesVars, jsVars, thrVars, capVars>>

\* Time passes between two requests.
Tick ==
    /\ \E t \in TimePoints : t > now /\ now' = t
    /\ last' = Request("tick", NoId, NoPayload, "", 0, "")
    /\ reply' = NoBody
    /\ UNCHANGED <<pending_requests, posted, sesVars, jsVars, thrVars, capVars>>

\* convert_image in the server's thread, statement by statement: lines 64-87
\* decode the payload and evaluate the dict display of the entry ...
convert_image_build(rid, image_data, fmt, width, height) ==
    /\ submit = <<>>
    /\ Decodes(image_data)
    /\ submit' = <<[rid |-> rid, image_data |-> image_data, format |-> fmt,
                    entry |-> Entry(image_data, fmt, width, height, now)]>>
    /\ posted' = posted \cup {rid}
    /\ UNCHANGED <<pending_requests, now, last, reply, fetch, sweep, srv, sesVars, jsVars,
                   capVars>>

\* ... and the subscript assignment of line 80 stores it; lines 92-97 reply.
convert_image_store ==
    /\ submit # <<>>
    /\ LET c == submit[1]
       IN  /\ pending_requests' = Put(pending_requests, c.rid, c.entry)
           /\ last' = Request("convert_image", c.rid, c.image_data, c.format, 0,
                 IF c.rid \notin Stored THEN "stored"
                 ELSE IF pending_requests[c.rid].pil_image = c.entry.pil_image
                 THEN "resubmitted" ELSE "replaced")
           /\ reply' = [NoBody EXCEPT
                 !.status = 200,
                 !.size = <<c.entry.pil_image.w, c.entry.pil_image.h>>]
    /\ submit' = <<>>
    /\ UNCHANGED <<now, posted, fetch, sweep, srv, sesVars, jsVars, capVars>>

\* ImageServer.get_stored_image in the caller's thread: the membership test
\* of lines 156-157 ...
get_stored_image_check(rid, format) ==
    /\ IF fetch = <<>> THEN TRUE ELSE fetch[1].pc \in {"done", "raised"}
    /\ fetch' = <<[pc |-> IF rid \in Stored THEN "checked" ELSE "done",
                   rid |-> rid, format |-> format, data |-> <<>>,
                   result |-> <<>>]>>
    /\ UNCHANGED <<svcVars, last, submit, sweep, srv, sesVars, jsVars, capVars>>

\* ... and the subscript read of line 159 with the selection of lines 161-166;
\* the read of a key that is gone raises KeyError.
get_stored_image_read ==
    /\ fetch # <<>>
    /\ fetch[1].pc = "checked"
    /\ LET c == fetch[1]
       IN  IF c.rid \notin Stored
           THEN fetch' = <<[c EXCEPT !.pc = "raised"]>>
           ELSE LET data == pending_requests[c.rid]
                IN  fetch' = <<[c EXCEPT
                      !.pc = "done",
                      !.data = <<data>>,
                      !.result = IF c.format = "pil" THEN <<data.pil_image>>
                                 ELSE IF c.format = "numpy"
                                 THEN <<data.numpy_array>>
                                 ELSE <<>>]>>
    /\ UNCHANGED <<svcVars, last, submit, sweep, srv, sesVars, jsVars, capVars>>

\* Submits and fetches side by side: the server's thread runs one handler at
\* a time (the handlers are coroutines without an await), the caller's thread
\* runs get_stored_image between any two of the server's statements.
NextConcurrent ==
    \/ \E rid \in RequestIds, image \in Images, fmt \in Formats,
          size \in DeclaredSizes :
          convert_image_build(rid, <<ImgPart(image)>>, fmt, size[1], size[2])
    \/ convert_image_store
    \/ \E rid \in RequestIds, format \in Representations :
          get_stored_image_check(rid, format)
    \/ get_stored_image_read
    \/ /\ submit = <<>>
       /\ \E rid \in RequestIds, format \in FetchFormats : get_image(rid, format)

\* cleanup_old_requests in the caller's thread, statement by statement, while
\* the server's thread handles requests. Line 170 reads the clock and line
\* 172 starts to iterate over pending_requests.items() ...
cleanup_old_requests_begin(max_age) ==
    /\ sweep.pc \in {"idle", "done", "raised"}
    /\ sweep' = [NoSweep EXCEPT !.pc = "iterate", !.current_time = now,
                                !.max_age = max_age,
                                !.size = Cardinality(Stored)]
    /\ UNCHANGED <<svcVars, last, submit, fetch, srv, sesVars, jsVars, capVars>>

\* ... one step of the iteration (lines 171-174): the dict iterator raises
\* RuntimeError when the dict's size is not the one it started with, ends
\* when it has passed every key, and else tests the next entry.
cleanup_old_requests_next ==
    /\ sweep.pc = "iterate"
    /\ IF Cardinality(Stored) # sweep.size
       THEN sweep' = [sweep EXCEPT !.pc = "raised", !.raised = "RuntimeError"]
       ELSE IF Stored \subseteq sweep.seen
       THEN sweep' = [sweep EXCEPT !.pc = "delete"]
       ELSE \E key \in Stored \ sweep.seen :
              sweep' = [sweep EXCEPT
                 !.seen = @ \cup {key},
                 !.expired_keys =
                    IF sweep.current_time - pending_requests[key].timestamp
                          > sweep.max_age
                    THEN @ \cup {key} ELSE @]
    /\ UNCHANGED <<svcVars, last, submit, fetch, srv, sesVars, jsVars, capVars>>

\* ... and one del of the loop of lines 175-176; del of a key that is gone
\* raises KeyError.
cleanup_old_requests_del ==
    /\ sweep.pc = "delete"
    /\ IF sweep.expired_keys = {}
       THEN /\ sweep' = [sweep EXCEPT !.pc = "done"]
            /\ UNCHANGED pending_requests
       ELSE \E key \in sweep.expired_keys :
              IF key \in Stored
              THEN /\ pending_requests' = Del(pending_requests, {key})
                   /\ sweep' = [sweep EXCEPT !.expired_keys = @ \ {key}]
              ELSE /\ sweep' = [sweep EXCEPT !.pc = "raised",
                                             !.raised = "KeyError"]
                   /\ UNCHANGED pending_requests
    /\ UNCHANGED <<now, posted, last, reply, submit, fetch, srv, sesVars, jsVars,
                   capVars>>

\* A sweep in the caller's thread beside submits and evicts in the server's.
NextSweep ==
    \/ \E rid \in RequestIds, image \in Images, fmt \in Formats,
          size \in DeclaredSizes :
          convert_image(rid, <<ImgPart(image)>>, fmt, size[1], size[2])
    \/ \E rid \in RequestIds : cleanup_request(rid)
    \/ Tick
    \/ \E max_age \in MaxAges : cleanup_old_requests_begin(max_age)
    \/ cleanup_old_requests_next
    \/ cleanup_old_requests_del

\* start_server (image_server.py:178-206). binds: uvicorn got the port and
\* answers after the one-second sleep; without it run_server's thread ends.
start_server ==
    /\ srv.calls < MaxStarts
    /\ last' = Request("start_server", NoId, NoPayload, "", 0, "")
    /\ IF server_up
       THEN /\ srv' = [srv EXCEPT !.calls = @ + 1,
                                  !.returned = srv._server_instance]
            /\ UNCHANGED server_up
       ELSE IF srv._server_instance # "None" /\ srv._server_thread = "alive"
       THEN /\ srv' = [srv EXCEPT !.calls = @ + 1,
                                  !.returned = srv._server_instance]
            /\ UNCHANGED server_up
       ELSE \E binds \in BOOLEAN :
            /\ srv' = [srv EXCEPT
                  !.calls = @ + 1,
                  !._server_instance = "ImageServer",
                  !._server_thread = IF binds THEN "alive" ELSE "dead",
                  !.instances = @ + 1,
                  !.threads = @ + 1,
                  !.returned = "ImageServer"]
            /\ server_up' = binds
    /\ UNCHANGED <<svcVars, submit, fetch, sweep, sesVars, jsVars, ipy,
                   driver_installable, _headless_capture, capture_js, call,
                   hostVars>>

\* Another program starts or stops answering /health on the port while no
\* thread of this process serves it.
port_changes ==
    /\ srv._server_thread # "alive"
    /\ server_up' = ~server_up
    /\ UNCHANGED <<svcVars, last, sesVars, jsVars, thrVars, ipy,
                   driver_installable, _headless_capture, capture_js, call,
                   hostVars>>

\* run_server's thread ends (uvicorn.run returned or raised).
run_server_ends ==
    /\ srv._server_thread = "alive"
    /\ srv' = [srv EXCEPT !._server_thread = "dead"]
    /\ server_up' = FALSE
    /\ UNCHANGED <<svcVars, last, submit, fetch, sweep, sesVars, jsVars, ipy,
                   driver_installable, _headless_capture, capture_js, call,
                   hostVars>>

\* The package's import and later callers start the service.
NextStart ==
    \/ start_server
    \/ port_changes
    \/ run_server_ends

NextService ==
    \/ \E rid \in RequestIds, image_data \in Payloads, fmt \in Formats,
          size \in DeclaredSizes :
          convert_image(rid, image_data, fmt, size[1], size[2])
    \/ \E rid \in RequestIds, format \in Representations : get_image(rid, format)
    \/ health
    \/ \E rid \in RequestIds : cleanup_request(rid)
    \/ \E max_age \in MaxAges : cleanup_old_requests(max_age)
    \/ Tick

\* ------------------------------------------------ viewer session (queue)
\* The script fragments the viewer methods build. addModel and setStyle build
\* a fragment that starts and ends with a line break (backend_3dmol.py:928-935,
\* 945-949); render builds a one-line fragment (backend_3dmol.py:966).
Commands == {"addModel", "setStyle", "render"}
starts_on_new_line(code) == code # "render"

\* Script text, as the pieces a JavaScript reader tells apart: a statement, a
\* line break, the "; " separator, and a "// Command n" line comment.
Stmt(code) == [t |-> "stmt", v |-> code]
LineBreak == [t |-> "nl", v |-> ""]
Separator == [t |-> "sep", v |-> ""]
Comment == [t |-> "comment", v |-> ""]

CommandText(code) ==
    IF starts_on_new_line(code)
    THEN <<LineBreak, Stmt(code), LineBreak>>
    ELSE <<Stmt(code)>>

\* backend_3dmol.py:160-163: a comment line and the command, per command.
RECURSIVE combined_js(_)
combined_js(cmds) ==
    IF cmds = <<>> THEN <<>>
    ELSE <<<<Comment>>, CommandText(Head(cmds))>> \o combined_js(Tail(cmds))

\* '; '.join(combined_js), followed by the line break of the template
\* (backend_3dmol.py:217).
RECURSIVE Join(_)
Join(pieces) ==
    IF pieces = <<>> THEN <<>>
    ELSE IF Len(pieces) = 1 THEN Head(pieces)
    ELSE Head(pieces) \o <<Separator>> \o Join(Tail(pieces))

wrapped_code(cmds) == Join(combined_js(cmds)) \o <<LineBreak>>

\* The statements a JavaScript engine runs from a script text: a // comment
\* runs to the end of its line.
RECURSIVE Run(_, _)
Run(text, in_comment) ==
    IF text = <<>> THEN <<>>
    ELSE LET tok == Head(text)
         IN  IF tok.t = "comment" THEN Run(Tail(text), TRUE)
             ELSE IF tok.t = "nl" THEN Run(Tail(text), FALSE)
             ELSE IF tok.t = "stmt" /\ ~in_comment
             THEN <<tok.v>> \o Run(Tail(text), in_comment)
             ELSE Run(Tail(text), in_comment)

SessionStep(op) == Request(op, NoId, NoPayload, "", 0, "")

\* The startjs script in the display (backend_3dmol.py:632-917).
\* tryInit's retry budget (line 884).
maxRetries == 10
\* cdnSources (lines 829-833).
CdnSources == 3
\* The script's viewer initialization: whether the container element is there
\* with a size, where tryInit stands and its retryCount, how many timers
\* init3DMolViewer has set for itself, how often $3Dmol.createViewer was
\* called and how often the ready flag was set.
NoDisplay ==
    [element_ready |-> FALSE, tryInit |-> "none", retryCount |-> 0,
     init_timers |-> 0, createViewer |-> 0, flag_sets |-> 0, result |-> FALSE]
\* A script load: its source (0 is jQuery, i the i-th CDN source of 3Dmol.js),
\* its 10-second timer, the element's event, and how often each callback ran.
Load(src) ==
    [src |-> src, timer |-> "armed", event |-> "none", success |-> 0,
     error |-> 0]
\* The loads started so far, currentCdnIndex, the pending timers of
\* tryNextCDN, and how often load3DMol's callback was handed to a timer.
NoLoader ==
    [loads |-> <<>>, currentCdnIndex |-> 0, tryNextCDN_timers |-> 0,
     callbacks |-> 0]

\* JS3DMol.__init__; the import of IPython succeeded or not.
InitSession ==
    /\ HAS_IPYTHON \in BOOLEAN
    /\ commands = <<>>
    /\ shown = 0
    /\ flushes = <<>>
    /\ viewer_ready = FALSE
    /\ display = NoDisplay
    /\ loader = NoLoader

\* JS3DMol.executeCode(code), and the viewer methods built on it.
executeCode(code) ==
    /\ Len(commands) < MaxCommands
    /\ commands' = IF HAS_IPYTHON THEN Append(commands, code) ELSE commands
    /\ last' = SessionStep("executeCode")
    /\ UNCHANGED <<svcVars, capVars, thrVars, jsVars, HAS_IPYTHON, shown, flushes, viewer_ready>>

\* JS3DMol._execute_queued_commands: the script it sends to the display.
\* queued records the queue the script was built from.
\* attempts and delay are the script's counter and the delay of the timer it
\* last set (backend_3dmol.py:169-170, 225).
maxAttempts == 50
InitialDelay == 1000
PollInterval == 200
Flush(cmds) ==
    [script |-> wrapped_code(cmds), queued |-> cmds, status |-> "pending",
     ran |-> <<>>, attempts |-> 0, delay |-> InitialDelay]

\* A flush that sends a script for an empty queue too.
_execute_queued_commands_always(fl, cmds) == Append(fl, Flush(cmds))

_execute_queued_commands(fl, cmds) ==
    IF cmds = <<>> THEN fl ELSE Append(fl, Flush(cmds))

\* JS3DMol.show()
show ==
    /\ shown < MaxShows
    /\ last' = SessionStep("show")
    /\ IF HAS_IPYTHON
       THEN /\ shown' = shown + 1
            /\ flushes' = _execute_queued_commands(flushes, commands)
       ELSE UNCHANGED <<shown, flushes>>
    /\ UNCHANGED <<svcVars, capVars, thrVars, jsVars, HAS_IPYTHON, commands, viewer_ready>>

\* The display ran startjs to the end: init3DMolViewer registered the viewer
\* and set py3dmol_viewer_ready[id] (backend_3dmol.py:755-759).
init3DMolViewer ==
    /\ shown > 0
    /\ ~viewer_ready
    /\ viewer_ready' = TRUE
    /\ last' = SessionStep("init3DMolViewer")
    /\ UNCHANGED <<svcVars, capVars, thrVars, jsVars, HAS_IPYTHON, commands, shown, flushes>>

\* The display's executeWhenReady of the k-th command script: once the viewer
\* is ready it runs the script's statements; when the attempts run out before
\* that it gives up (backend_3dmol.py:173-222).
executeWhenReady(k) ==
    /\ flushes[k].status = "pending"
    /\ flushes' = [flushes EXCEPT ![k] =
          IF viewer_ready
          THEN [flushes[k] EXCEPT !.status = "done",
                                  !.ran = Run(flushes[k].script, FALSE)]
          ELSE [flushes[k] EXCEPT !.status = "gaveup"]]
    /\ last' = SessionStep("executeWhenReady")
    /\ UNCHANGED <<svcVars, capVars, thrVars, jsVars, HAS_IPYTHON, commands, shown, viewer_ready>>

\* A script that takes the viewer to be there.
dependencies_ready_assumed == TRUE

\* backend_3dmol.py:184-212: $3Dmol and jQuery are loaded, the viewer is
\* registered under the session's id and its ready flag is set. The display
\* registers the viewer and sets the flag in one turn (755-759).
dependencies_ready == viewer_ready

\* One run of the script's function executeWhenReady, started by its timer
\* (backend_3dmol.py:173-222): count the attempt, give up past maxAttempts,
\* set the timer again while the viewer is not ready, else run the commands.
executeWhenReady_attempt(k) ==
    /\ flushes[k].status = "pending"
    /\ LET attempts == flushes[k].attempts + 1
       IN  flushes' = [flushes EXCEPT ![k] =
             IF attempts > maxAttempts
             THEN [flushes[k] EXCEPT !.attempts = attempts,
                                     !.status = "gaveup"]
             ELSE IF ~dependencies_ready
             THEN [flushes[k] EXCEPT !.attempts = attempts,
                                     !.delay = PollInterval]
             ELSE [flushes[k] EXCEPT !.attempts = attempts,
                                     !.status = "done",
                                     !.ran = Run(flushes[k].script, FALSE)]]
    /\ last' = SessionStep("executeWhenReady")
    /\ UNCHANGED <<svcVars, capVars, thrVars, jsVars, HAS_IPYTHON, commands, shown,
                   viewer_ready>>

\* init3DMolViewer, one call (backend_3dmol.py:685-788), with jQuery and
\* 3Dmol.js loaded: while the element is not ready it sets a 100 ms timer for
\* itself and returns false; else it calls createViewer, and with a viewer
\* registers it, sets the ready flag and returns true. ok: createViewer gave
\* a viewer.
init3DMolViewer_call(d, ok) ==
    IF ~d.element_ready
    THEN [d EXCEPT !.init_timers = @ + 1, !.result = FALSE]
    ELSE IF ~ok
    THEN [d EXCEPT !.createViewer = @ + 1, !.result = FALSE]
    ELSE [d EXCEPT !.createViewer = @ + 1, !.flag_sets = @ + 1,
                   !.result = TRUE]

\* tryInit (backend_3dmol.py:887-900): the first call when the document is
\* ready, later ones from its 200 ms timer.
tryInit(ok) ==
    /\ shown > 0
    /\ display.tryInit \in {"none", "timer"}
    /\ LET d == init3DMolViewer_call(display, ok)
       IN  /\ display' =
                IF d.result THEN [d EXCEPT !.tryInit = "done"]
                ELSE IF d.retryCount + 1 < maxRetries
                THEN [d EXCEPT !.retryCount = @ + 1, !.tryInit = "timer"]
                ELSE [d EXCEPT !.retryCount = @ + 1, !.tryInit = "failed"]
           /\ viewer_ready' = (viewer_ready \/ d.result)
    /\ last' = SessionStep("tryInit")
    /\ UNCHANGED <<svcVars, capVars, thrVars, loader, HAS_IPYTHON, commands,
                   shown, flushes>>

\* A timer init3DMolViewer set for itself fires (backend_3dmol.py:701).
init3DMolViewer_timer(ok) ==
    /\ display.init_timers > 0
    /\ LET d == init3DMolViewer_call(
                   [display EXCEPT !.init_timers = @ - 1], ok)
       IN  /\ display' = d
           /\ viewer_ready' = (viewer_ready \/ d.result)
    /\ last' = SessionStep("init3DMolViewer timer")
    /\ UNCHANGED <<svcVars, capVars, thrVars, loader, HAS_IPYTHON, commands,
                   shown, flushes>>

\* The notebook lays out the container element (isElementReady turns true).
element_ready ==
    /\ shown > 0
    /\ ~display.element_ready
    /\ display' = [display EXCEPT !.element_ready = TRUE]
    /\ last' = SessionStep("element ready")
    /\ UNCHANGED <<svcVars, capVars, thrVars, loader, sesVars>>

\* One display running the script's viewer initialization after show().
NextDisplay ==
    \/ show
    \/ \E ok \in BOOLEAN : tryInit(ok)
    \/ \E ok \in BOOLEAN : init3DMolViewer_timer(ok)
    \/ element_ready

\* tryNextCDN (backend_3dmol.py:837-868): the next source is loaded unless
\* all were tried.
tryNextCDN(l) ==
    IF l.currentCdnIndex >= CdnSources THEN l
    ELSE [l EXCEPT !.loads = Append(@, Load(l.currentCdnIndex + 1))]

\* The success callback of a load: jQuery's goes on to load3DMol, which calls
\* tryNextCDN (lines 795-803, 822-870); a 3Dmol.js source's hands
\* load3DMol's callback to a timer (line 853).
callback(l, src) ==
    IF src = 0 THEN tryNextCDN(l)
    ELSE [l EXCEPT !.callbacks = @ + 1]

\* The error callback of a load: jQuery's writes a message (lines 811-815); a
\* 3Dmol.js source's moves to the next source and sets a timer for
\* tryNextCDN (lines 861-865).
errorCallback(l, src) ==
    IF src = 0 THEN l
    ELSE [l EXCEPT !.currentCdnIndex = @ + 1, !.tryNextCDN_timers = @ + 1]

\* startInitialization -> loadJQuery -> loadScript (lines 791-796, 873-876).
startInitialization ==
    /\ shown > 0
    /\ loader.loads = <<>>
    /\ loader' = [loader EXCEPT !.loads = <<Load(0)>>]
    /\ last' = SessionStep("startInitialization")
    /\ UNCHANGED <<svcVars, capVars, thrVars, display, sesVars>>

\* script.onload (lines 653-657): the element fires one of onload and
\* onerror, once; the handlers stay on it after the timer fired.
onload(i) ==
    /\ loader.loads[i].event = "none"
    /\ loader' = callback(
          [loader EXCEPT !.loads[i].event = "onload",
                         !.loads[i].timer =
                            IF @ = "armed" THEN "cleared" ELSE @,
                         !.loads[i].success = @ + 1],
          loader.loads[i].src)
    /\ last' = SessionStep("onload")
    /\ UNCHANGED <<svcVars, capVars, thrVars, display, sesVars>>

\* script.onerror (lines 659-663)
onerror(i) ==
    /\ loader.loads[i].event = "none"
    /\ loader' = errorCallback(
          [loader EXCEPT !.loads[i].event = "onerror",
                         !.loads[i].timer =
                            IF @ = "armed" THEN "cleared" ELSE @,
                         !.loads[i].error = @ + 1],
          loader.loads[i].src)
    /\ last' = SessionStep("onerror")
    /\ UNCHANGED <<svcVars, capVars, thrVars, display, sesVars>>

\* The 10-second timer of a load fires (lines 648-651).
script_timeout(i) ==
    /\ loader.loads[i].timer = "armed"
    /\ loader' = errorCallback(
          [loader EXCEPT !.loads[i].timer = "fired",
                         !.loads[i].error = @ + 1],
          loader.loads[i].src)
    /\ last' = SessionStep("timeout")
    /\ UNCHANGED <<svcVars, capVars, thrVars, display, sesVars>>

\* A timer set for tryNextCDN fires.
tryNextCDN_timer ==
    /\ loader.tryNextCDN_timers > 0
    /\ loader' = tryNextCDN([loader EXCEPT !.tryNextCDN_timers = @ - 1])
    /\ last' = SessionStep("tryNextCDN")
    /\ UNCHANGED <<svcVars, capVars, thrVars, display, sesVars>>

\* One display loading the scripts after show().
NextLoad ==
    \/ show
    \/ startInitialization
    \/ \E i \in DOMAIN loader.loads : onload(i)
    \/ \E i \in DOMAIN loader.loads : onerror(i)
    \/ \E i \in DOMAIN loader.loads : script_timeout(i)
    \/ tryNextCDN_timer

\* A notebook session whose display runs each command script attempt by
\* attempt.
NextFlush ==
    \/ \E code \in Commands : executeCode(code)
    \/ show
    \/ init3DMolViewer
    \/ \E k \in DOMAIN flushes : executeWhenReady_attempt(k)

NextSession ==
    \/ \E code \in Commands : executeCode(code)
    \/ show
    \/ init3DMolViewer
    \/ \E k \in DOMAIN flushes : executeWhenReady(k)

\* ---------------------------------------------------- capture orchestrator
\* get_ipython(): None, a shell with a display attribute, a shell whose config
\* names IPKernelApp, a shell with neither, or one whose inspection raises.
IpyKinds == {"None", "display", "IPKernelApp", "plain", "raises"}

\* backend_3dmol.py:81-95
_is_jupyter_environment ==
    IF ~HAS_IPYTHON THEN FALSE
    ELSE IF ipy = "raises" THEN FALSE
    ELSE IF ipy = "None" THEN FALSE
    ELSE ipy = "display" \/ ipy = "IPKernelApp"

\* backend_3dmol.py:448
max_attempts == 5

NoResult == [kind |-> "pending", data |-> <<>>]
None == [kind |-> "None", data |-> <<>>]
Data(image_data) == [kind |-> "data", data |-> image_data]

\* canvas.toDataURL('image/' + format): a data URI of what the canvas shows,
\* encoded and labelled as the format names.
toDataURL(img, format) ==
    <<[PrefixPart EXCEPT !.mime = format], [ImgPart(img) EXCEPT !.mime = format]>>

\* What requests.get(.../get_image/{request_id}) hands to the loop: the status
\* code, what the body is, and the body's status and image_data fields.
Response(status_code, body, status, has_image_data, image_data) ==
    [status_code |-> status_code, body |-> body, status |-> status,
     has_image_data |-> has_image_data, image_data |-> image_data]

\* A get_image_data call: where it stands, its arguments, the request id of
\* its live attempt, the poll loop's index, what it returned, whether an
\* exception left it, what it did so far, and the seconds its loop slept
\* after the last fetch.
Idle ==
    [pc |-> "idle", n |-> 0, format |-> "", force_headless |-> FALSE,
     request_id |-> NoId, attempt |-> 0, result |-> NoResult,
     raised |-> FALSE, trace |-> <<>>, wait |-> 0, page |-> <<>>]

Did(event) == Append(call.trace, event)
Events == {call.trace[i] : i \in DOMAIN call.trace}

InitCapture ==
    /\ ipy \in IF HAS_IPYTHON THEN IpyKinds ELSE {"None"}
    /\ server_up \in BOOLEAN
    /\ driver_installable \in BOOLEAN
    /\ _headless_capture = "None"
    /\ capture_js = {}
    /\ call = Idle
    /\ engines = 0
    /\ temp_files = 0

\* A caller that tries the live path again after it failed.
fallback_retries_live(c, events) ==
    [c EXCEPT !.pc = "live",
              !.trace = c.trace \o events \o <<"fallback", "LIVE-CAPTURE">>]

\* What get_image_data does after _get_image_data_fastapi returned None
\* (backend_3dmol.py:258-260).
fallback(c, events) ==
    [c EXCEPT !.pc = "headless",
              !.trace = c.trace \o events \o <<"fallback", "HEADLESS-CAPTURE">>]

\* A choice of strategy that does not look at force_headless.
get_image_data_ignores_force(format, force_headless) ==
    /\ call.pc \in {"idle", "done"}
    /\ call.n < MaxCalls
    /\ call' = [Idle EXCEPT
          !.n = call.n + 1,
          !.format = format,
          !.force_headless = force_headless,
          !.pc = IF _is_jupyter_environment THEN "live" ELSE "headless",
          !.trace = IF _is_jupyter_environment
                    THEN <<"detect", "LIVE-CAPTURE">>
                    ELSE <<"detect", "HEADLESS-CAPTURE">>]
    /\ UNCHANGED <<svcVars, last, sesVars, jsVars, thrVars, envVars, _headless_capture,
                   capture_js, hostVars>>

\* JS3DMol.get_image_data up to the choice of the strategy
\* (backend_3dmol.py:245-264).
get_image_data(format, force_headless) ==
    /\ call.pc \in {"idle", "done"}
    /\ call.n < MaxCalls
    /\ call' = [Idle EXCEPT
          !.n = call.n + 1,
          !.format = format,
          !.force_headless = force_headless,
          !.pc = IF force_headless THEN "headless"
                 ELSE IF _is_jupyter_environment THEN "live" ELSE "headless",
          !.trace = IF force_headless THEN <<"HEADLESS-CAPTURE">>
                    ELSE IF _is_jupyter_environment
                    THEN <<"detect", "LIVE-CAPTURE">>
                    ELSE <<"detect", "HEADLESS-CAPTURE">>]
    /\ UNCHANGED <<svcVars, last, sesVars, jsVars, thrVars, envVars, _headless_capture,
                   capture_js, hostVars>>

\* GET /health as a client sees it: the handler's reply, or no answer.
health_probe ==
    /\ last' = IF server_up THEN Request("health", NoId, NoPayload, "", 0, "")
               ELSE last
    /\ reply' = IF server_up
                THEN [NoBody EXCEPT !.status = 200, !.ids = Stored]
                ELSE reply

\* A live path that goes on to the capture script whatever the probe says.
_get_image_data_fastapi_no_probe ==
    /\ call.pc = "live"
    /\ health_probe
    /\ \E request_id \in RequestIds :
         /\ call' = [call EXCEPT
               !.pc = "poll",
               !.request_id = request_id,
               !.attempt = 0,
               !.trace = call.trace \o <<"probe", "request_id", "inject">>]
         /\ capture_js' = capture_js \cup {request_id}
    /\ UNCHANGED <<pending_requests, now, posted, sesVars, jsVars, thrVars, envVars,
                   _headless_capture, hostVars>>

\* _get_image_data_fastapi, first part: the liveness probe
\* (_test_server_connectivity), then the request id and the capture script
\* (backend_3dmol.py:268-431).
_get_image_data_fastapi ==
    /\ call.pc = "live"
    /\ health_probe
    /\ IF ~server_up
       THEN /\ call' = fallback(call, <<"probe", "unreachable">>)
            /\ UNCHANGED capture_js
       ELSE \E request_id \in RequestIds :
            /\ call' = [call EXCEPT
                  !.pc = "poll",
                  !.request_id = request_id,
                  !.attempt = 0,
                  !.trace = call.trace \o <<"probe", "request_id", "inject">>]
            /\ capture_js' = capture_js \cup {request_id}
    /\ UNCHANGED <<pending_requests, now, posted, sesVars, jsVars, thrVars, envVars,
                   _headless_capture, hostVars>>

\* The capture script in the display (captureAndSend): when it finds a viewer
\* with a canvas it posts the canvas to the service; otherwise it ends with a
\* console message.
captureAndSend(request_id) ==
    /\ request_id \in capture_js
    /\ capture_js' = capture_js \ {request_id}
    /\ \/ /\ server_up
          /\ \E img \in Images, fmt \in Formats, size \in DeclaredSizes :
               convert_image_handler(request_id, toDataURL(img, fmt), fmt,
                                     size[1], size[2])
       \/ UNCHANGED <<svcVars, last>>
    /\ UNCHANGED <<sesVars, jsVars, thrVars, envVars, _headless_capture, call, hostVars>>

\* The response that carries a reply of this package's get_image handler.
OwnResponse(r) ==
    Response(r.status, "object", IF r.status = 200 THEN "success" ELSE "",
             r.status = 200, r.image_data)

\* Responses of another program that holds port 8769 (start_server and the
\* probe accept any program that answers /health with 200).
OtherResponses ==
    { Response(200, "object", "success", FALSE, <<>>),
      Response(200, "object", "error", FALSE, <<>>),
      Response(200, "not object", "", FALSE, <<>>),
      Response(200, "not json", "", FALSE, <<>>),
      Response(500, "object", "", FALSE, <<>>) }

\* A loop body that gives up on the first 404.
poll_outcome_404_breaks(resp) ==
    IF resp.status_code = 200
    THEN IF resp.body = "object" /\ resp.status = "success"
            /\ resp.has_image_data
         THEN "return" ELSE "continue"
    ELSE "break"

\* backend_3dmol.py:449-467, one pass of the loop body: how it ends.
\* response.json() raises requests' JSONDecodeError, a RequestException;
\* data.get on a body that is no object and data['image_data'] on a body
\* without that key raise past the except clause.
poll_outcome(resp) ==
    IF resp.status_code = 200
    THEN IF resp.body = "not json" THEN "break"
         ELSE IF resp.body = "not object" THEN "raise"
         ELSE IF resp.status = "success"
              THEN IF resp.has_image_data THEN "return" ELSE "raise"
              ELSE "continue"
    ELSE IF resp.status_code = 404 THEN "sleep"
    ELSE "continue"

\* time.sleep(1) after a 404 (backend_3dmol.py:462); no wait otherwise.
poll_wait(resp, attempt) == IF poll_outcome(resp) = "sleep" THEN 1 ELSE 0

\* A loop whose index never advances.
next_attempt_stuck(attempt) == attempt

\* for attempt in range(max_attempts)
next_attempt(attempt) == attempt + 1

\* The call after one pass of the loop that received resp.
after_poll(c, resp) ==
    LET o == poll_outcome(resp)
        k == next_attempt(c.attempt)
        d == [c EXCEPT !.trace = Append(c.trace, "poll")]
    IN  IF o = "return"
        THEN [d EXCEPT !.pc = "done", !.result = Data(resp.image_data)]
        ELSE IF o = "raise"
        THEN [d EXCEPT !.pc = "done", !.raised = TRUE]
        ELSE IF o = "break"
        THEN [d EXCEPT !.pc = "debug", !.trace = Append(d.trace, "break")]
        ELSE [d EXCEPT !.attempt = k,
                       !.wait = poll_wait(resp, c.attempt),
                       !.pc = IF k < max_attempts THEN "poll" ELSE "debug"]

\* A retrieval loop that has the service drop the frame it asked for.
poll_get_image_evicts ==
    /\ call.pc = "poll"
    /\ call.attempt < max_attempts
    /\ server_up
    /\ last' = Request("get_image", call.request_id, NoPayload, "pil", 0, "")
    /\ reply' = get_image_reply(pending_requests, call.request_id, "pil")
    /\ call' = after_poll(call, OwnResponse(reply'))
    /\ pending_requests' = Del(pending_requests, {call.request_id})
    /\ UNCHANGED <<now, posted, sesVars, jsVars, thrVars, envVars,
                   _headless_capture, capture_js, hostVars>>

\* One pass of the retrieval loop (backend_3dmol.py:449-467).
poll_get_image ==
    /\ call.pc = "poll"
    /\ call.attempt < max_attempts
    /\ IF server_up
       THEN \/ /\ last' = Request("get_image", call.request_id, NoPayload,
                                  "pil", 0, "")
               /\ reply' = get_image_reply(pending_requests, call.request_id,
                                           "pil")
               /\ call' = after_poll(call, OwnResponse(reply'))
            \/ /\ \E resp \in OtherResponses : call' = after_poll(call, resp)
               /\ UNCHANGED <<last, reply>>
       ELSE /\ call' = [call EXCEPT
                  !.pc = "debug",
                  !.trace = call.trace \o <<"poll", "break">>]
            /\ UNCHANGED <<last, reply>>
    /\ UNCHANGED <<pending_requests, now, posted, sesVars, jsVars, thrVars, envVars,
                   _headless_capture, capture_js, hostVars>>

\* An end of the live path that returns None to the caller of get_image_data.
debug_health_no_fallback ==
    /\ call.pc = "debug"
    /\ health_probe
    /\ call' = [call EXCEPT !.pc = "done", !.result = None,
                            !.trace = Did("debug")]
    /\ UNCHANGED <<pending_requests, now, posted, sesVars, jsVars, thrVars, envVars,
                   _headless_capture, capture_js, hostVars>>

\* The debug listing after the loop, and the return of None
\* (backend_3dmol.py:469-485).
debug_health ==
    /\ call.pc = "debug"
    /\ health_probe
    /\ call' = fallback(call, <<"debug">>)
    /\ UNCHANGED <<pending_requests, now, posted, sesVars, jsVars, thrVars, envVars,
                   _headless_capture, capture_js, hostVars>>

\* HeadlessCapture(): _setup_driver leaves a started driver, or None
\* (headless_capture.py:25-98).
HeadlessCapture == IF driver_installable THEN "driver" ELSE "no driver"

\* A lookup that never finds a cached instance.
cache_is_empty_always == TRUE

\* headless_capture.py:375
cache_is_empty == _headless_capture = "None"

\* headless_capture.get_headless_capture: the cached instance, or a new one
\* whose driver is None when no driver could be started.
get_headless_capture ==
    IF cache_is_empty THEN HeadlessCapture ELSE _headless_capture

\* The browser engines one get_headless_capture() starts.
engines_started ==
    IF cache_is_empty /\ HeadlessCapture = "driver" THEN 1 ELSE 0

\* HeadlessCapture.is_available: the driver attribute is not None. A driver
\* whose browser has gone is still an object.
is_available(capture) == capture \in {"driver", "dead"}

\* A headless path that tries the capture without asking for the driver.
_get_image_data_headless_no_check ==
    /\ call.pc = "headless"
    /\ _headless_capture' = get_headless_capture
    /\ engines' = engines + engines_started
    /\ call' = [call EXCEPT !.pc = "capture", !.trace = Did("available")]
    /\ UNCHANGED <<svcVars, last, sesVars, jsVars, thrVars, envVars, capture_js, temp_files>>

\* _get_image_data_headless up to is_headless_available
\* (backend_3dmol.py:489-495).
_get_image_data_headless ==
    /\ call.pc = "headless"
    /\ _headless_capture' = get_headless_capture
    /\ engines' = engines + engines_started
    /\ call' =
         IF is_available(get_headless_capture)
         THEN [call EXCEPT !.pc = "capture", !.trace = Did("available")]
         ELSE [call EXCEPT !.pc = "done", !.result = None,
                           !.trace = Did("dependency-missing")]
    /\ UNCHANGED <<svcVars, last, sesVars, jsVars, thrVars, envVars, capture_js, temp_files>>

\* The page the driver loaded, as the two scripts of capture_viewer_image see
\* it: whether 3Dmol.js loaded, whether window.viewer is set, whether
\* viewer.getCanvas() gives a canvas, and what the canvas shows (a canvas of
\* width 0 shows nothing).
Page(dmol, viewer, has_canvas, canvas) ==
    [dmol |-> dmol, viewer |-> viewer, has_canvas |-> has_canvas,
     canvas |-> canvas]
ZeroSize == [w |-> 0, h |-> 0, px |-> 0]
Pages ==
    { Page(FALSE, FALSE, FALSE, ZeroSize),
      Page(TRUE, FALSE, FALSE, ZeroSize),
      Page(TRUE, TRUE, FALSE, ZeroSize),
      Page(TRUE, TRUE, TRUE, ZeroSize) }
    \cup { Page(TRUE, TRUE, TRUE, img) : img \in Images }

\* A readiness script that reports an error on every page.
ready_result_never(page) == "error"

\* The readiness script (headless_capture.py:148-166).
ready_result(page) ==
    IF ~page.dmol THEN "error"
    ELSE IF ~page.viewer THEN "error"
    ELSE "success"

\* The capture script reaches canvas.toDataURL (headless_capture.py:172-205).
rasterizes(page) ==
    /\ page.viewer
    /\ page.has_canvas
    /\ ~(page.canvas.w = 0 \/ page.canvas.h = 0)

\* What the capture script returns: the data URL, or null.
canvas_data(page) ==
    IF rasterizes(page) THEN Data(toDataURL(page.canvas, call.format)) ELSE None

\* A finally clause that leaves the file.
unlink_skipped(n) == n

\* os.unlink(html_file) in the finally clause (headless_capture.py:228-233).
unlink(n) == n - 1

\* The viewer methods' commands and other texts a caller can hand to
\* executeCode: a call of a function named executeWhenReady whose body holds a
\* try block around render, such a call without a try block, and white space.
WrapperWithTry == "executeWhenReady(function() { try { render } })"
WrapperNoTry == "executeWhenReady(render)"
Blank == " "
QueuedTexts == Commands \cup {WrapperWithTry, WrapperNoTry, Blank}

\* The script text of a queued command.
SourceText(cmd) == IF cmd = Blank THEN <<LineBreak>> ELSE CommandText(cmd)

\* str.strip on a script text: the white space at both ends goes.
RECURSIVE lstrip(_)
lstrip(text) ==
    IF text = <<>> THEN <<>>
    ELSE IF Head(text).t = "nl" THEN lstrip(Tail(text))
    ELSE text
RECURSIVE rstrip(_)
rstrip(text) ==
    IF text = <<>> THEN <<>>
    ELSE IF text[Len(text)].t = "nl" THEN rstrip(SubSeq(text, 1, Len(text) - 1))
    ELSE text
strip(text) == rstrip(lstrip(text))

\* headless_capture.py:255-273: the text between 'try {' and its closing
\* brace, stripped; nothing when the command holds no 'try {'.
inner_js(cmd) == IF cmd = WrapperWithTry THEN <<Stmt("render")>> ELSE <<>>

\* headless_capture.py:254-279: what one queued command adds to
\* viewer_commands.
extract_command(cmd) ==
    IF cmd \in {WrapperWithTry, WrapperNoTry}
    THEN IF inner_js(cmd) # <<>> THEN <<inner_js(cmd)>> ELSE <<>>
    ELSE IF strip(SourceText(cmd)) # <<>> THEN <<strip(SourceText(cmd))>>
    ELSE <<>>

\* headless_capture.py:244-279
RECURSIVE viewer_commands(_)
viewer_commands(cmds) ==
    IF cmds = <<>> THEN <<>>
    ELSE extract_command(Head(cmds)) \o viewer_commands(Tail(cmds))

\* '\n        '.join(viewer_commands) (headless_capture.py:291)
RECURSIVE JoinLines(_)
JoinLines(pieces) ==
    IF pieces = <<>> THEN <<>>
    ELSE IF Len(pieces) = 1 THEN Head(pieces)
    ELSE Head(pieces) \o <<LineBreak>> \o JoinLines(Tail(pieces))

\* headless_capture.py:282-291: commands_js, the script of the page; a
\* console.log stands in when no command was extracted.
_create_viewer_html(cmds) ==
    LET extracted == viewer_commands(cmds)
    IN  JoinLines(IF extracted = <<>> THEN <<<<Stmt("console.log")>>>>
                  ELSE extracted)

\* capture_headless_image and capture_viewer_image up to the temporary page
\* file (headless_capture.py:393-396, 118-128): the page is written, or
\* writing it raises after NamedTemporaryFile created the file.
capture_headless_image ==
    /\ call.pc = "capture"
    /\ _headless_capture' = get_headless_capture
    /\ engines' = engines + engines_started
    /\ IF ~is_available(get_headless_capture)
       THEN /\ call' = [call EXCEPT !.pc = "done", !.result = None,
                                    !.trace = Did("capture-failed")]
            /\ UNCHANGED temp_files
       ELSE /\ temp_files' = temp_files + 1
            /\ \/ call' = [call EXCEPT !.pc = "page",
                                       !.page = _create_viewer_html(commands),
                                       !.trace = Did("tempfile")]
               \/ call' = [call EXCEPT
                     !.pc = "done", !.result = None,
                     !.page = _create_viewer_html(commands),
                     !.trace = call.trace \o
                        <<"tempfile", "write-raises", "capture-failed">>]
    /\ UNCHANGED <<svcVars, last, sesVars, jsVars, thrVars, envVars, capture_js>>

\* What capture_viewer_image did with a page that loaded
\* (headless_capture.py:130-226).
page_events(page) ==
    <<"load", IF ready_result(page) = "success" THEN "ready" ELSE "not-ready">>
    \o (IF rasterizes(page) THEN <<"rasterize">> ELSE <<>>)
    \o <<"unlink",
         IF canvas_data(page) = None THEN "capture-failed" ELSE "captured">>

\* capture_viewer_image from driver.get to its return, and the end of
\* _get_image_data_headless (headless_capture.py:130-237,
\* backend_3dmol.py:506-513): driver.get or a script raises (always so when
\* the browser has gone), or the two scripts run on the page.
capture_viewer_image ==
    /\ call.pc = "page"
    /\ temp_files' = unlink(temp_files)
    /\ \/ call' = [call EXCEPT
             !.pc = "done", !.result = None,
             !.trace = call.trace \o
                <<"load-raises", "unlink", "capture-failed">>]
       \/ /\ _headless_capture = "driver"
          /\ \/ call' = [call EXCEPT
                   !.pc = "done", !.result = None,
                   !.trace = call.trace \o
                      <<"load", "script-raises", "unlink", "capture-failed">>]
             \/ \E page \in Pages :
                  call' = [call EXCEPT
                     !.pc = "done",
                     !.result = canvas_data(page),
                     !.trace = call.trace \o page_events(page)]
    /\ UNCHANGED <<svcVars, last, sesVars, jsVars, thrVars, envVars, _headless_capture,
                   capture_js, engines>>

\* The service starts or stops answering.
service_changes ==
    /\ server_up' = ~server_up
    /\ UNCHANGED <<svcVars, last, sesVars, jsVars, thrVars, ipy, driver_installable,
                   _headless_capture, capture_js, call, hostVars>>

\* A driver becomes installable or stops being so.
driver_changes ==
    /\ driver_installable' = ~driver_installable
    /\ UNCHANGED <<svcVars, last, sesVars, jsVars, thrVars, ipy, server_up, _headless_capture,
                   capture_js, call, hostVars>>

\* The browser of the cached driver goes away.
driver_dies ==
    /\ _headless_capture = "driver"
    /\ _headless_capture' = "dead"
    /\ UNCHANGED <<svcVars, last, sesVars, jsVars, thrVars, envVars, capture_js, call,
                   hostVars>>

environment_changes == service_changes \/ driver_changes \/ driver_dies

NextCapture ==
    \/ \E format \in Formats, force_headless \in BOOLEAN :
          get_image_data(format, force_headless)
    \/ _get_image_data_fastapi
    \/ \E request_id \in RequestIds : captureAndSend(request_id)
    \/ poll_get_image
    \/ debug_health
    \/ _get_image_data_headless
    \/ capture_headless_image
    \/ capture_viewer_image
    \/ environment_changes

Init == InitService /\ InitSession /\ InitCapture
Next == NextService \/ NextSession \/ NextCapture
Spec == Init /\ [][Next]_vars
\* The service on its own: the process answers on its port and no notebook
\* session is attached to it.
InitServiceAlone ==
    /\ Init
    /\ HAS_IPYTHON = FALSE
    /\ server_up = TRUE
    /\ driver_installable = FALSE
SpecService == InitServiceAlone /\ [][NextService]_vars
\* The service with clients that submit and fetch and never call
\* DELETE /cleanup or cleanup_old_requests; the clock advances and requests
\* keep being served.
NextRequests ==
    \/ \E rid \in RequestIds, image_data \in Payloads, fmt \in Formats,
          size \in DeclaredSizes :
          convert_image(rid, image_data, fmt, size[1], size[2])
    \/ \E rid \in RequestIds, format \in Representations : get_image(rid, format)
    \/ health
NextUnattended == NextRequests \/ Tick
FairUnattended ==
    /\ InitServiceAlone
    /\ [][NextUnattended]_vars
    /\ WF_vars(Tick)
    /\ WF_vars(NextRequests)
SpecConcurrent == InitServiceAlone /\ [][NextConcurrent]_vars
SpecSweep == InitServiceAlone /\ [][NextSweep]_vars
\* The process before the first start_server; the port may already answer.
InitStart ==
    /\ Init
    /\ driver_installable = FALSE
SpecStart == InitStart /\ [][NextStart]_vars
\* One viewer session outside a notebook shell, with or without IPython.
InitSessionAlone ==
    /\ Init
    /\ ipy = "None"
    /\ server_up = FALSE
    /\ driver_installable = FALSE
SpecSession == InitSessionAlone /\ [][NextSession]_vars
InitFlush ==
    /\ InitSessionAlone
    /\ HAS_IPYTHON = TRUE
SpecFlush == InitFlush /\ [][NextFlush]_vars
SpecDisplay == InitFlush /\ [][NextDisplay]_vars
SpecLoad == InitFlush /\ [][NextLoad]_vars
SpecCapture == Init /\ [][NextCapture]_vars

\* Calls in a notebook whose host has no driver: the live path and its
\* fallback.
NextLive ==
    \/ \E format \in Formats, force_headless \in BOOLEAN :
          get_image_data(format, force_headless)
    \/ _get_image_data_fastapi
    \/ \E request_id \in RequestIds : captureAndSend(request_id)
    \/ poll_get_image
    \/ debug_health
    \/ _get_image_data_headless
    \/ service_changes
InitLive ==
    /\ Init
    /\ HAS_IPYTHON = TRUE
    /\ ipy = "display"
    /\ driver_installable = FALSE
SpecLive == InitLive /\ [][NextLive]_vars

\* Calls outside a notebook: the headless path alone.
NextHeadless ==
    \/ \E format \in Formats, force_headless \in BOOLEAN :
          get_image_data(format, force_headless)
    \/ _get_image_data_headless
    \/ capture_headless_image
    \/ capture_viewer_image
    \/ driver_changes
    \/ driver_dies
InitHeadless ==
    /\ Init
    /\ ~_is_jupyter_environment
    /\ server_up = FALSE
SpecHeadless == InitHeadless /\ [][NextHeadless]_vars

\* A session outside a notebook whose caller queues commands and, between
\* captures, more of them; a driver can be started.
NextReplay ==
    \/ /\ call.pc \in {"idle", "done"}
       /\ \E code \in QueuedTexts : executeCode(code)
    \/ \E format \in Formats, force_headless \in BOOLEAN :
          get_image_data(format, force_headless)
    \/ _get_image_data_headless
    \/ capture_headless_image
    \/ capture_viewer_image
InitReplay ==
    /\ Init
    /\ HAS_IPYTHON = TRUE
    /\ ipy = "None"
    /\ server_up = FALSE
    /\ driver_installable = TRUE
SpecReplay == InitReplay /\ [][NextReplay]_vars

\* Calls while nothing answers on the service's port, in a notebook or not.
NextOffline ==
    \/ \E format \in Formats, force_headless \in BOOLEAN :
          get_image_data(format, force_headless)
    \/ _get_image_data_fastapi
    \/ _get_image_data_headless
    \/ capture_headless_image
    \/ capture_viewer_image
    \/ driver_changes
    \/ driver_dies
InitOffline ==
    /\ Init
    /\ server_up = FALSE
SpecOffline == InitOffline /\ [][NextOffline]_vars

\* The steps of get_image_data itself. Python runs them one after the other
\* without waiting for anything but its own timeouts and sleeps, so a call
\* that can step does step.
CallStep ==
    \/ _get_image_data_fastapi
    \/ poll_get_image
    \/ debug_health
    \/ _get_image_data_headless
    \/ capture_headless_image
    \/ capture_viewer_image
FairCapture == Init /\ [][NextCapture]_vars /\ WF_vars(CallStep)

\* ------------------------------------------------- Local Capture Service
Age(rid) == now - pending_requests[rid].timestamp
Submitted == last.op = "convert_image"
Swept == last.op = "cleanup_old_requests"

\* C1: fetch of a request id that was never sent to POST /convert_image is
\* answered 404, for the pil and the numpy representation, in every state.
C1_NeverSubmittedNotFound ==
    /\ \A rid \in RequestIds \ posted : \A f \in FetchFormats :
          get_image_reply(pending_requests, rid, f).status = 404
    /\ (last.op = "get_image" /\ last.rid \notin posted) => reply.status = 404

\* A fetch of an unposted id was answered while another id is stored.
C1_Witness ==
    /\ last.op = "get_image"
    /\ last.rid \notin posted
    /\ last.format \in FetchFormats
    /\ reply.status = 404
    /\ Stored # {}

C3_ResubmitReplaces ==
    [][(last'.op = "convert_image" /\ last'.note \in {"replaced", "resubmitted"})
       => LET rid == last'.rid
              r == get_image_reply(pending_requests', rid, "pil")
          IN  /\ r.status = 200
              /\ Decodes(r.image_data)
              /\ pil_image(r.image_data) = pil_image(last'.image_data)
              /\ pending_requests'[rid].timestamp = now
              /\ pending_requests'[rid].format = last'.format
              /\ DOMAIN pending_requests' = Stored
              /\ \A o \in Stored \ {rid} :
                    pending_requests'[o] = pending_requests[o]]_vars

\* A stored id was submitted again, later, with another raster and format.
C3_Witness ==
    /\ Submitted
    /\ last.note = "replaced"
    /\ reply.status = 200
    /\ now > 0
    /\ Cardinality(Stored) = 2

\* C4: a sweep leaves no entry older than max_age fetchable.
C4_SweepRemovesExpired ==
    [][last'.op = "cleanup_old_requests"
       => \A rid \in Stored :
            Age(rid) > last'.max_age
            => \A f \in FetchFormats :
                 get_image_reply(pending_requests', rid, f).status = 404]_vars

\* A sweep removed an entry that was never evicted.
C4_Witness ==
    /\ Swept
    /\ last.note = "removed"
    /\ posted \ Stored # {}

\* C5: a sweep keeps every entry aged at most max_age, unchanged and
\* fetchable; an entry aged exactly max_age stays.
C5_SweepKeepsFresh ==
    [][last'.op = "cleanup_old_requests"
       => \A rid \in Stored :
            Age(rid) <= last'.max_age
            => /\ rid \in DOMAIN pending_requests'
               /\ pending_requests'[rid] = pending_requests[rid]
               /\ \A f \in FetchFormats :
                    get_image_reply(pending_requests', rid, f)
                      = get_image_reply(pending_requests, rid, f)]_vars

\* A sweep with max_age 300 removed an entry and kept the entry aged 10.
C5_Witness ==
    /\ Swept
    /\ last.note = "removed"
    /\ last.max_age = DefaultMaxAge
    /\ \E rid \in Stored : Age(rid) = 10

\* The text convert_image decodes (after the first comma, or all of it) is
\* no raster.
Undecodable(image_data) ==
    (IF Len(image_data) >= 2 THEN image_data[2] ELSE image_data[1]).kind
       # "img"
Evicted == last.op = "cleanup_request"

\* C21: a submit whose payload is no raster is answered 400 and leaves the
\* store as it was: no entry for a new request id, the earlier entry for a
\* stored one.
C21_RejectedSubmitLeavesStore ==
    [][(last'.op = "convert_image" /\ Undecodable(last'.image_data))
       => /\ reply'.status = 400
          /\ pending_requests' = pending_requests
          /\ \A rid \in RequestIds, f \in FetchFormats :
                get_image_reply(pending_requests', rid, f)
                  = get_image_reply(pending_requests, rid, f)]_vars

\* A payload that is no raster was rejected under a stored request id.
C21_Witness ==
    /\ Submitted
    /\ Undecodable(last.image_data)
    /\ reply.status = 400
    /\ last.rid \in Stored

\* C23: every stored request id was submitted, an entry appears or changes
\* only in a submit of that id whose payload is a raster and which is
\* answered 200, and the store maps an id to one entry.
C23_StoredWereSubmitted ==
    /\ [](/\ Stored \subseteq posted
          /\ Stored \subseteq RequestIds
          /\ \A rid \in Stored :
                pending_requests[rid].pil_image \in Images)
    /\ [][\A rid \in RequestIds :
            (rid \in DOMAIN pending_requests'
               /\ (rid \notin Stored
                     \/ pending_requests'[rid] # pending_requests[rid]))
            => /\ last'.op = "convert_image"
               /\ last'.rid = rid
               /\ ~Undecodable(last'.image_data)
               /\ reply'.status = 200]_vars

\* One id is stored while the other was submitted and rejected.
C23_Witness ==
    /\ Cardinality(Stored) = 1
    /\ Cardinality(posted) = 2
    /\ Submitted
    /\ reply.status = 400

\* C24: evict removes the entry of its request id and no other; the id then
\* stays Not-Found until a submit of it; evict of an id that is not stored
\* answers not_found and changes nothing.
C24_EvictRemovesExactlyOne ==
    /\ [][last'.op = "cleanup_request"
          => LET rid == last'.rid
             IN  /\ rid \notin DOMAIN pending_requests'
                 /\ \A f \in FetchFormats :
                       get_image_reply(pending_requests', rid, f).status = 404
                 /\ DOMAIN pending_requests' = Stored \ {rid}
                 /\ \A o \in Stored \ {rid} :
                       pending_requests'[o] = pending_requests[o]
                 /\ reply'.format =
                       (IF rid \in Stored THEN "cleaned" ELSE "not_found")
                 /\ rid \notin Stored => pending_requests' = pending_requests]_vars
    /\ [][\A rid \in RequestIds :
            (rid \notin Stored /\ rid \in DOMAIN pending_requests')
            => (last'.op = "convert_image" /\ last'.rid = rid)]_vars

\* One of two stored frames was evicted.
C24_Witness ==
    /\ Evicted
    /\ last.note = "removed"
    /\ reply.format = "cleaned"
    /\ Cardinality(Stored) = 1
    /\ last.rid \notin Stored

\* C25: with clients that never evict or sweep, a stored frame older than
\* the default max age is eventually gone from the store (or replaced by a
\* fresh one).
C25_OldFramesSwept ==
    \A rid \in RequestIds :
        (rid \in Stored /\ Age(rid) > DefaultMaxAge)
           ~> (rid \notin Stored \/ Age(rid) <= DefaultMaxAge)

\* The entries one submit can build.
CompleteFrames ==
    {Entry(p, f, s[1], s[2], t) :
        p \in {q \in Payloads : ~Undecodable(q)}, f \in Formats,
        s \in DeclaredSizes, t \in TimePoints}

\* C26: with submits and fetches interleaved, also on one request id, the
\* store changes only by one assignment of the whole entry a single submit
\* built, and a fetch ends with nothing (the id was not stored) or with the
\* image or array of one complete entry, never with an error or a mixture.
C26_FetchSeesWholeFrames ==
    /\ [](\A rid \in Stored : pending_requests[rid] \in CompleteFrames)
    /\ [](fetch # <<>> =>
            /\ fetch[1].pc # "raised"
            /\ fetch[1].data # <<>> =>
                 /\ fetch[1].data[1] \in CompleteFrames
                 /\ fetch[1].format = "pil" =>
                      fetch[1].result = <<fetch[1].data[1].pil_image>>
                 /\ fetch[1].format = "numpy" =>
                      fetch[1].result = <<fetch[1].data[1].numpy_array>>)
    /\ [][\A rid \in RequestIds :
            (rid \in DOMAIN pending_requests'
               /\ (rid \notin Stored
                     \/ pending_requests'[rid] # pending_requests[rid]))
            => /\ submit # <<>>
               /\ submit[1].rid = rid
               /\ pending_requests'[rid] = submit[1].entry]_vars
    /\ [][(fetch' # fetch /\ fetch' # <<>> /\ fetch'[1].data # <<>>)
            => fetch'[1].data = <<pending_requests[fetch'[1].rid]>>]_vars

\* A fetch passed the membership test, a submit then replaced the frame of the
\* same id with another image, and the fetch read the new frame.
C26_Witness ==
    /\ fetch # <<>>
    /\ fetch[1].pc = "done"
    /\ fetch[1].data # <<>>
    /\ last.op = "convert_image"
    /\ last.note = "replaced"
    /\ last.rid = fetch[1].rid
    /\ fetch[1].data[1] = pending_requests[fetch[1].rid]

\* The statements of the queued commands, command after command.
RECURSIVE Statements(_)
Statements(cmds) ==
    IF cmds = <<>> THEN <<>>
    ELSE Run(SourceText(Head(cmds)), FALSE) \o Statements(Tail(cmds))

\* C22: the page a headless capture builds from a queue that is not empty
\* runs the statements of every queued command, each as queued, in enqueue
\* order.
C22_PageReplaysQueue ==
    [][(call'.page # call.page /\ call'.page # <<>> /\ commands # <<>>)
       => Run(call'.page, FALSE) = Statements(commands)]_vars

\* C31: a submit of a data-URI payload (prefix, comma, base64 text of a
\* raster) is answered 200 and stores the entry that the bare base64 text
\* stores under the same request id, format and sizes at the same time.
C31_PrefixStripped ==
    [][(/\ last'.op = "convert_image"
        /\ Len(last'.image_data) = 2
        /\ last'.image_data[1] = PrefixPart
        /\ last'.image_data[2].kind = "img")
       => /\ reply'.status = 200
          /\ last'.rid \in DOMAIN pending_requests'
          /\ \E size \in DeclaredSizes :
                pending_requests'[last'.rid] =
                   Entry(<<last'.image_data[2]>>, last'.format,
                         size[1], size[2], now)]_vars

\* A data-URI payload was submitted and its raster is stored.
C31_Witness ==
    /\ Submitted
    /\ Len(last.image_data) = 2
    /\ last.image_data[1] = PrefixPart
    /\ last.rid \in Stored
    /\ ImgPart(pending_requests[last.rid].pil_image) = last.image_data[2]

\* C35: a sweep that runs in the caller's thread while the server's thread
\* handles submits and evicts does not raise.
C35_ConcurrentSweepCompletes ==
    sweep.pc # "raised"

\* C38: get_image and health leave the store as it is; a fetch's reply is
\* determined by the store, so a fetch repeated right after the same fetch
\* gets the same reply; health lists exactly the stored identifiers.
C38_FetchAndHealthReadOnly ==
    /\ [][last'.op \in {"get_image", "health"}
            => pending_requests' = pending_requests]_vars
    /\ [][last'.op = "get_image"
            => reply' = get_image_reply(pending_requests, last'.rid,
                                        last'.format)]_vars
    /\ [][(last.op = "get_image" /\ last'.op = "get_image"
             /\ last'.rid = last.rid /\ last'.format = last.format)
            => reply' = reply]_vars
    /\ [][last'.op = "health"
            => reply'.ids = DOMAIN pending_requests']_vars

\* health listed the one stored identifier after the other was posted and
\* is no longer, or never was, stored.
C38_Witness ==
    /\ last.op = "health"
    /\ Cardinality(Stored) = 1
    /\ reply.ids = Stored
    /\ posted = RequestIds

\* C36: start_server never returns None, and each call that creates an
\* ImageServer creates exactly one thread for it.
C36_StartServerReturnsInstance ==
    /\ srv.returned # "None"
    /\ srv.instances = srv.threads

C27_NoCommandBeforeReady ==
    /\ [](\A k \in DOMAIN flushes :
            (flushes[k].status = "done" \/ flushes[k].ran # <<>>)
               => viewer_ready)
    /\ [][\A k \in DOMAIN flushes' :
            IF k \in DOMAIN flushes
            THEN /\ flushes'[k].ran # flushes[k].ran => viewer_ready
                 /\ (flushes'[k] # flushes[k] /\ ~viewer_ready
                       /\ flushes'[k].attempts <= maxAttempts)
                    => /\ flushes'[k].status = "pending"
                       /\ flushes'[k].delay = PollInterval
            ELSE /\ flushes'[k].status = "pending"
                 /\ flushes'[k].ran = <<>>
                 /\ flushes'[k].attempts = 0]_vars

\* A script found the viewer missing at least once and ran its commands at a
\* later attempt, after the display had set the flag.
C27_Witness ==
    \E k \in DOMAIN flushes :
        /\ flushes[k].status = "done"
        /\ flushes[k].attempts >= 2
        /\ flushes[k].ran # <<>>
        /\ viewer_ready

IsPrefix(a, b) == Len(a) <= Len(b) /\ a = SubSeq(b, 1, Len(a))

\* C28: a flush's script looks for the viewer at most maxAttempts times, the
\* attempts after the first PollInterval apart; a script that gave up ran
\* nothing and stays given up; and what a script ran is nothing or the queue
\* from its first command on, in order.
C28_BoundedPollAllOrNothing ==
    \A k \in DOMAIN flushes :
        /\ flushes[k].attempts <= maxAttempts + 1
        /\ (flushes[k].attempts >= 1 /\ flushes[k].status = "pending")
             => flushes[k].delay = PollInterval
        /\ flushes[k].status = "gaveup"
             => (flushes[k].attempts = maxAttempts + 1 /\ flushes[k].ran = <<>>)
        /\ flushes[k].status = "done" => flushes[k].attempts <= maxAttempts
        /\ \/ flushes[k].ran = <<>>
           \/ IsPrefix(flushes[k].ran, flushes[k].queued)

\* C29: every executeCode appends its command to the end of the queue and
\* leaves the commands before it as they were, with IPython or without.
C29_EnqueueAppendsOne ==
    [][last'.op = "executeCode"
       => /\ Len(commands') = Len(commands) + 1
          /\ SubSeq(commands', 1, Len(commands)) = commands
          /\ commands'[Len(commands')] \in Commands]_vars

\* C30: show() with an empty queue sends no command script to the display
\* and leaves the queue empty.
C30_EmptyFlushIsNoOp ==
    [][(last'.op = "show" /\ commands = <<>>)
       => /\ flushes' = flushes
          /\ commands' = <<>>]_vars

\* The viewer was shown twice with nothing queued: no script was sent.
C30_Witness ==
    /\ last.op = "show"
    /\ HAS_IPYTHON
    /\ shown = 2
    /\ commands = <<>>
    /\ flushes = <<>>

\* C32: once tryInit has used up its maxRetries attempts with the container
\* element still not ready, the initialization has no timer pending: it has
\* stopped rescheduling itself.
C32_InitWaitHasCeiling ==
    (display.retryCount >= maxRetries /\ ~display.element_ready)
       => (display.init_timers = 0 /\ display.tryInit # "timer")

\* C33: for one show(), a viewer is created, registered and flagged ready at
\* most once, however the timers of tryInit and of init3DMolViewer fire (a
\* call of $3Dmol.createViewer that gave no viewer is not counted).
C33_ViewerCreatedOnce ==
    shown <= 1 => display.flag_sets <= 1

\* C34: for every script load, the success callback and the error callback
\* have run at most once together, and exactly once when the element's event
\* has fired.
C34_OneCallbackPerLoad ==
    \A i \in DOMAIN loader.loads :
        /\ loader.loads[i].success + loader.loads[i].error <= 1
        /\ loader.loads[i].event # "none"
             => loader.loads[i].success + loader.loads[i].error = 1

\* ---------------------------------------------------- capture orchestrator
LiveEvents == {"detect", "LIVE-CAPTURE", "probe", "request_id", "inject",
               "poll", "break", "debug", "fallback"}
Strategies == {"LIVE-CAPTURE", "HEADLESS-CAPTURE"}
FirstStrategy ==
    LET at == {i \in DOMAIN call.trace : call.trace[i] \in Strategies}
    IN  call.trace[CHOOSE i \in at : \A j \in at : i <= j]
LastEvent(c) == c.trace[Len(c.trace)]

\* C8: a capture attempt starts with LIVE-CAPTURE exactly when a live display
\* host is detected and force_headless is false, and with HEADLESS-CAPTURE
\* otherwise; with force_headless it never probes the service, takes no
\* request id and injects no capture script.
C8_StrategyChoice ==
    call.pc # "idle"
    => /\ (FirstStrategy = "LIVE-CAPTURE")
            <=> (_is_jupyter_environment /\ ~call.force_headless)
       /\ ("LIVE-CAPTURE" \in Events)
            <=> (_is_jupyter_environment /\ ~call.force_headless)
       /\ call.force_headless
            => /\ Events \cap LiveEvents = {}
               /\ call.request_id = NoId

\* A forced headless capture in a notebook ran to its result.
C8_Witness ==
    /\ call.pc = "done"
    /\ call.force_headless
    /\ _is_jupyter_environment
    /\ call.result.kind = "data"

\* C9: when the live path's probe finds the service unreachable, the same
\* call goes on with HEADLESS-CAPTURE at once: no request id, no capture
\* script, no fetch, then or later in the call.
C9_UnreachableFallsBack ==
    /\ [][(call.pc = "live" /\ ~server_up /\ call'.pc # "live")
          => /\ call'.pc = "headless"
             /\ call'.n = call.n
             /\ LastEvent(call') = "HEADLESS-CAPTURE"
             /\ call'.request_id = NoId
             /\ capture_js' = capture_js
             /\ pending_requests' = pending_requests]_vars
    /\ []("unreachable" \in Events
          => /\ Events \cap {"request_id", "inject", "poll"} = {}
             /\ call.pc \in {"headless", "capture", "page", "done"})

\* A call in a notebook found the service unreachable and returned the
\* headless raster.
C9_Witness ==
    /\ call.pc = "done"
    /\ "unreachable" \in Events
    /\ call.result.kind = "data"

NoUsableDriver ==
    _headless_capture \in {"None", "no driver"} /\ ~driver_installable

\* C10: without a live display host and without a driver, HEADLESS-CAPTURE
\* ends the call with None and the dependency-missing diagnostic; nothing
\* else is tried and no exception leaves the call.
C10_NoDriverReturnsNone ==
    /\ [][(call.pc = "headless" /\ call' # call
            /\ ~_is_jupyter_environment /\ NoUsableDriver)
          => /\ call'.pc = "done"
             /\ call'.result = None
             /\ ~call'.raised
             /\ LastEvent(call') = "dependency-missing"
             /\ Events' \cap (LiveEvents \cup {"captured", "capture-failed"})
                  \subseteq {"detect"}]_vars
    /\ [][call.pc = "done" => (call' = call \/ call'.n = call.n + 1)]_vars

\* An auto-detected call outside a notebook ended with the diagnostic.
C10_Witness ==
    /\ call.pc = "done"
    /\ ~call.force_headless
    /\ ~_is_jupyter_environment
    /\ LastEvent(call) = "dependency-missing"
    /\ call.result = None

\* ------------------------------------------------------ capture attempts
Ended == call.pc = "done"
Returned == Ended /\ ~call.raised
InLoop == call.pc = "poll"

\* C11: a get_image_data call that has ended has returned image data or None;
\* no exception leaves it, whatever the service answered.
C11_NeverRaises ==
    Ended => /\ ~call.raised
             /\ call.result.kind \in {"data", "None"}

\* C12: a live attempt whose loop ends without a successful fetch (the
\* retries are used up, or a request failed) goes on with HEADLESS-CAPTURE;
\* a successful fetch ends the call with the frame stored under the
\* attempt's request id, and the call never enters HEADLESS-CAPTURE.
C12_ExhaustedFallsBackSuccessReturns ==
    /\ [][(call.pc = "debug" /\ call' # call)
          => /\ call'.pc = "headless"
             /\ call'.n = call.n
             /\ LastEvent(call') = "HEADLESS-CAPTURE"
             /\ call'.result = NoResult]_vars
    /\ [][(InLoop /\ call'.pc = "poll") => call'.attempt < max_attempts]_vars
    /\ [][(InLoop /\ call'.pc = "done" /\ ~call'.raised)
          => /\ call.request_id \in Stored
             /\ call'.result =
                  Data(get_image_reply(pending_requests, call.request_id,
                                       "pil").image_data)
             /\ "HEADLESS-CAPTURE" \notin Events']_vars
    /\ []((Returned /\ LastEvent(call) = "poll")
          => /\ call.result.kind = "data"
             /\ "HEADLESS-CAPTURE" \notin Events)

\* Five fetches were answered 404 and the call went on to the headless path.
C12_Witness ==
    /\ Ended
    /\ call.attempt = max_attempts
    /\ "HEADLESS-CAPTURE" \in Events
    /\ "break" \notin Events

\* The wait of the first retry, in seconds.
BackoffUnit == 1

\* C13: a capture attempt fetches at most max_attempts times, and the wait
\* after the k-th unsuccessful fetch is k times the first wait.
C13_BoundedLinearBackoff ==
    /\ call.attempt <= max_attempts
    /\ (call.pc \in {"poll", "debug"} /\ call.attempt >= 1
          /\ "break" \notin Events)
       => call.wait = call.attempt * BackoffUnit

\* C20: the request id a live attempt draws is not the id of an earlier
\* attempt: no frame was posted under it and no capture script of an earlier
\* attempt holds it.
C20_FreshRequestId ==
    [][(call.pc = "live" /\ call'.pc = "poll")
       => call'.request_id \notin (posted \cup capture_js)]_vars

\* The most events one call records: the choice of the strategy, the live
\* path with max_attempts fetches, the fallback and the headless path.
MaxEvents == max_attempts + 16

C37_LiveCaptureKeepsFrame ==
    /\ [][/\ Stored \subseteq DOMAIN pending_requests'
          /\ Cardinality(DOMAIN pending_requests') >= Cardinality(Stored)
          /\ \A rid \in Stored \ {last'.rid} :
                pending_requests'[rid] = pending_requests[rid]]_vars
    /\ []((Returned /\ LastEvent(call) = "poll")
            => call.request_id \in Stored)

\* The second call returned the frame it fetched, and the frames of both
\* attempts are in the store.
C37_Witness ==
    /\ Returned
    /\ call.n = 2
    /\ LastEvent(call) = "poll"
    /\ call.result.kind = "data"
    /\ Stored = RequestIds

\* The answer of this package's service to a fetch of an unknown id.
NotFound == OwnResponse([NoBody EXCEPT !.status = 404])

\* C39: in the retrieval loop a 404 is retried after a wait as long as fewer
\* than max_attempts fetches were made; a transport error ends the loop at
\* once, the remaining attempts unused; after either end of the loop the
\* live path gives up and the headless path follows.
C39_NotFoundRetriedTransportBreaks ==
    /\ [](InLoop
            => /\ poll_outcome(NotFound) = "sleep"
               /\ after_poll(call, NotFound).attempt = call.attempt + 1
               /\ after_poll(call, NotFound).wait >= 1
               /\ after_poll(call, NotFound).pc =
                    IF call.attempt + 1 < max_attempts THEN "poll"
                    ELSE "debug"
               /\ "break" \notin
                    {after_poll(call, NotFound).trace[i] :
                       i \in DOMAIN after_poll(call, NotFound).trace})
    /\ [][(InLoop /\ ~server_up /\ call' # call)
            => /\ call'.pc = "debug"
               /\ call'.attempt = call.attempt
               /\ call'.attempt < max_attempts
               /\ LastEvent(call') = "break"]_vars
    /\ [][(InLoop /\ call'.pc = "debug")
            => \/ LastEvent(call') = "break" /\ call'.attempt = call.attempt
               \/ call'.attempt = max_attempts]_vars
    /\ [][(call.pc = "debug" /\ call' # call)
            => /\ call'.pc = "headless"
               /\ call'.result = NoResult
               /\ "HEADLESS-CAPTURE" \in
                    {call'.trace[i] : i \in DOMAIN call'.trace}]_vars

\* Fetches were answered 404 and retried after a wait, then a transport
\* error ended the loop before the fifth attempt, and the call went through
\* the headless path to its end.
C39_Witness ==
    /\ Ended
    /\ call.attempt \in 1..(max_attempts - 1)
    /\ call.wait >= 1
    /\ "break" \in Events
    /\ "HEADLESS-CAPTURE" \in Events
    /\ call.result = None

Count(event) ==
    Cardinality({i \in DOMAIN call.trace : call.trace[i] = event})
InHeadless == call.pc \in {"headless", "capture", "page"}

\* C15: one call enters LIVE-CAPTURE at most once and HEADLESS-CAPTURE at
\* most once, never LIVE-CAPTURE after HEADLESS-CAPTURE, and a headless path
\* that fails ends the call.
C15_EachStrategyOnce ==
    /\ [](/\ Count("LIVE-CAPTURE") <= 1
          /\ Count("HEADLESS-CAPTURE") <= 1
          /\ \A i, j \in DOMAIN call.trace :
                (call.trace[i] = "HEADLESS-CAPTURE"
                   /\ call.trace[j] = "LIVE-CAPTURE") => j < i)
    /\ [][(InHeadless /\ call' # call)
          => /\ call'.n = call.n
             /\ call'.pc \in {"capture", "page", "done"}
             /\ call'.pc = "done" => call'.result.kind \in {"data", "None"}]_vars

\* A call ran the live path, fell back and ended with None from the headless
\* path.
C15_Witness ==
    /\ Ended
    /\ Count("LIVE-CAPTURE") = 1
    /\ Count("HEADLESS-CAPTURE") = 1
    /\ "poll" \in Events
    /\ call.result = None

C17_RasterizeOnlyWhenReady ==
    /\ Count("ready") + Count("not-ready") <= 1
    /\ "rasterize" \in Events => "ready" \in Events
    /\ "captured" \in Events => "rasterize" \in Events
    /\ "not-ready" \in Events
         => /\ Ended
            /\ call.result = None
            /\ "rasterize" \notin Events

\* The readiness script found no viewer and the call ended with None.
C17_Witness ==
    /\ Ended
    /\ "not-ready" \in Events
    /\ "unlink" \in Events
    /\ call.result = None

\* C18: when a driver can be started, a headless path does not stop at a
\* cached instance without a usable driver: it ends up with a started one.
C18_CacheRevalidated ==
    [][(call.pc = "headless" /\ call' # call /\ driver_installable)
       => /\ call'.pc = "capture"
          /\ _headless_capture' = "driver"]_vars

\* C19: this process starts at most one browser engine, and while the cached
\* instance has a usable driver every step of a call keeps that instance and
\* starts no engine.
C19_OneDriver ==
    /\ [](engines <= 1)
    /\ [][(_headless_capture = "driver" /\ call' # call)
          => /\ _headless_capture' = "driver"
             /\ engines' = engines]_vars

\* A second call captured with the driver the first call started.
C19_Witness ==
    /\ Ended
    /\ call.n = 2
    /\ engines = 1
    /\ _headless_capture = "driver"
    /\ "captured" \in Events

====
